---- MODULE Spec2Model ----
(***************************************************************************)
(* Star-history pipeline of streamlit_app.py: the paginated collector      *)
(* get_stargazer_dates, the cumulative series built over the trailing      *)
(* five-year window, and the reconciliation of the last point against the  *)
(* repository's stargazers_count.                                          *)
(*                                                                         *)
(* Representation of Python values:                                        *)
(*   - a date object is its proleptic Gregorian ordinal (date.toordinal);  *)
(*   - the string "YYYY-MM-DD" is the tuple <<y, m, d>>;                   *)
(*   - a JSON value is a record tagged by t ("null", "num", "str",         *)
(*     "dict", "list"); a timestamp string is a date prefix ymd (<<>> when *)
(*     the string does not start with a date) followed by the text tail.   *)
(***************************************************************************)
EXTENDS Integers, Sequences, FiniteSets, TLC

VARIABLES
    pc,             \* position of the script / of get_stargazer_dates
    full_name,      \* argument of get_stargazer_dates
    max_pages,      \* argument of get_stargazer_dates
    page,           \* loop variable of "for page in range(1, max_pages + 1)"
    starred_dates,  \* list of date strings collected so far
    log,            \* every call of fetch_json_with_headers: url and returned body
    sg,             \* value returned by get_stargazer_dates
    top_repos,      \* the repositories listed by the last search, best first
    selected_repo,  \* the repository chosen in the sidebar
    today,          \* datetime.utcnow().date() when the chart is built
    df,             \* the cumulative series: one row (date, stars) per day
    ui,             \* what the script has rendered, in order
    clock,          \* the clock of the st.cache_data caches, in seconds
    fetch_cache,    \* cache of fetch_json_with_headers: url -> value, time stored
    dates_cache,    \* cache of get_stargazer_dates: arguments -> value, time stored
    fetches,        \* every call of fetch_json_with_headers since the start
    calls,          \* every call of get_stargazer_dates since the start
    session_state,  \* st.session_state: search_results and search_error
    click,          \* the button that triggered the current run of the script
    chart_button,   \* was the show-chart button rendered by the last run?
    api,            \* the search requests of the current run: url and body
    pressed         \* has the search button been pressed so far?

vars == <<pc, full_name, max_pages, page, starred_dates, log, sg,
          top_repos, selected_repo, today, df, ui,
          clock, fetch_cache, dates_cache, fetches, calls,
          session_state, click, chart_button, api, pressed>>

sessionVars == <<session_state, click, chart_button, api, pressed>>

cacheVars == <<clock, fetch_cache, dates_cache, fetches, calls>>

collectorVars == <<full_name, max_pages, page, starred_dates, log, sg>>

chartVars == <<top_repos, selected_repo, today, df, ui>>

(* Bounds *)

\* largest page cap passed to get_stargazer_dates
MaxPages == 2

\* number of calls of get_stargazer_dates followed through the caches
MaxCalls == 3

\* latest time on the clock of the caches, in seconds
MaxClock == 3600

(* Calendar arithmetic of datetime.date *)

IsLeap(y) == y % 4 = 0 /\ (y % 100 # 0 \/ y % 400 = 0)

DaysInMonth(y, m) ==
    IF m = 2 THEN (IF IsLeap(y) THEN 29 ELSE 28)
    ELSE IF m \in {4, 6, 9, 11} THEN 30 ELSE 31

DaysBeforeMonthTable == <<0, 31, 59, 90, 120, 151, 181, 212, 243, 273, 304, 334>>

DaysBeforeMonth(y, m) ==
    DaysBeforeMonthTable[m] + (IF m > 2 /\ IsLeap(y) THEN 1 ELSE 0)

DaysBeforeYear(year) ==
    LET y == year - 1
    IN  y * 365 + (y \div 4) - (y \div 100) + (y \div 400)

\* date(y, m, d) accepts exactly the days of the calendar
ValidYmd(ymd) ==
    /\ Len(ymd) = 3
    /\ ymd[1] \in 1..9999
    /\ ymd[2] \in 1..12
    /\ ymd[3] \in 1..DaysInMonth(ymd[1], ymd[2])

\* date(y, m, d).toordinal()
Ymd2Ord(ymd) == DaysBeforeYear(ymd[1]) + DaysBeforeMonth(ymd[1], ymd[2]) + ymd[3]

\* date.fromordinal(n) read back as (year, month, day), as date.isoformat prints it
Ord2Ymd(ord) ==
    LET n0   == ord - 1
        n400 == n0 \div 146097
        r400 == n0 % 146097
        n100 == r400 \div 36524
        r100 == r400 % 36524
        n4   == r100 \div 1461
        r4   == r100 % 1461
        n1   == r4 \div 365
        n    == r4 % 365
        year == n400 * 400 + 1 + n100 * 100 + n4 * 4 + n1
        leapyear == n1 = 3 /\ (n4 # 24 \/ n100 = 3)
        month0 == (n + 50) \div 32
        prec0  == DaysBeforeMonthTable[month0] + (IF month0 > 2 /\ leapyear THEN 1 ELSE 0)
        month  == IF prec0 > n THEN month0 - 1 ELSE month0
        dim    == IF month = 2 THEN (IF leapyear THEN 29 ELSE 28)
                  ELSE IF month \in {4, 6, 9, 11} THEN 30 ELSE 31
        prec   == IF prec0 > n THEN prec0 - dim ELSE prec0
    IN  IF n1 = 4 \/ n100 = 4
        THEN <<year - 1, 12, 31>>
        ELSE <<year, month, n - prec + 1>>

(* JSON values *)

None == [t |-> "null", ymd |-> <<>>, tail |-> "", num |-> 0]

Str(ymd, tail) == [t |-> "str", ymd |-> ymd, tail |-> tail, num |-> 0]

Num(n) == [t |-> "num", ymd |-> <<>>, tail |-> "", num |-> n]

\* Python truth value of a JSON scalar ("if sa:")
Truthy(v) ==
    CASE v.t = "null" -> FALSE
      [] v.t = "num"  -> v.num # 0
      [] v.t = "str"  -> ~(v.ymd = <<>> /\ v.tail = "")

\* str.replace("Z", "+00:00") on the text after the date prefix
ReplaceZ(tail) ==
    CASE tail = "T08:30:00Z" -> "T08:30:00+00:00"
      [] tail = "T25:61:00Z" -> "T25:61:00+00:00"
      [] OTHER -> tail

\* time-and-offset parts that datetime.fromisoformat accepts after a date
IsoTails == {"", "T08:30:00+00:00", "T23:30:00-05:00"}

\* does sa.replace("Z", "+00:00") followed by datetime.fromisoformat succeed?
\* a value that is not a string has no replace method (AttributeError)
FromIsoOk(sa) ==
    /\ sa.t = "str"
    /\ ValidYmd(sa.ymd)
    /\ ReplaceZ(sa.tail) \in IsoTails

\* datetime.fromisoformat(...).date(): the calendar date of the wall-clock
\* time as written, whatever the offset
FromIsoDate(sa) == Ymd2Ord(sa.ymd)

\* date.isoformat()
IsoFormat(d) == Ord2Ymd(d)

(* The stargazers API as the collector sees it *)

\* per_page=100 in the request URL, and the factor of the truncation test
PER_PAGE == 100

RepoNames == {"octo/alpha", "beta"}

TsOld == Str(<<2015, 7, 4>>, "T08:30:00Z")

TsEdge == Str(<<2019, 3, 2>>, "T08:30:00Z")

TsMid == Str(<<2023, 1, 1>>, "T23:30:00-05:00")

TsNew == Str(<<2024, 3, 1>>, "T08:30:00+00:00")

TsDateOnly == Str(<<2023, 1, 1>>, "")

\* strings that are no ISO-8601 instant: free text, a day that does not
\* exist, an hour that does not exist
TsGarbage == Str(<<>>, "yesterday")

TsNoSuchDay == Str(<<2023, 2, 30>>, "T08:30:00Z")

TsNoSuchHour == Str(<<2023, 1, 1>>, "T25:61:00Z")

TsEmpty == Str(<<>>, "")

Item(sa) == [user |-> "u", starred_at |-> sa]

ItemNoTs == [user |-> "u"]

ListBody(items) == [t |-> "list", items |-> items]

ErrHTTP == [t |-> "dict", keys |-> {"__error__"}, text |-> "HTTPError: 403 rate limit exceeded"]

ErrTransport == [t |-> "dict", keys |-> {"__error__"}, text |-> "timed out"]

DictBody == [t |-> "dict", keys |-> {"message"}, text |-> "Not Found"]

NullBody == [t |-> "null"]

EmptyPage == ListBody(<<>>)

FullPage(sa) == ListBody([i \in 1..PER_PAGE |-> Item(sa)])

\* a page of 100 valid records spread over three days
FullPageMixed ==
    ListBody([i \in 1..PER_PAGE |->
                IF i <= 40 THEN Item(TsEdge)
                ELSE IF i <= 90 THEN Item(TsMid) ELSE Item(TsNew)])

\* a page of 100 records one of which carries no usable timestamp
FullPageOneBad ==
    ListBody([i \in 1..PER_PAGE |->
                IF i = 50 THEN Item(TsNoSuchDay)
                ELSE IF i < 50 THEN Item(TsEdge) ELSE Item(TsNew)])

ShortPage ==
    ListBody(<<Item(TsGarbage), Item(TsMid), ItemNoTs, Item(TsDateOnly),
               Item(Num(1700000000)), Item(TsEmpty), Item(TsNoSuchHour),
               Item(None), Item(TsOld)>>)

\* what one call of fetch_json_with_headers may return
PageChoices ==
    {ErrHTTP, ErrTransport, DictBody, NullBody, EmptyPage,
     FullPage(TsOld), FullPageMixed, FullPageOneBad, ShortPage}

UrlFirstPage(repo, n) == [repo |-> repo, per_page |-> PER_PAGE, page |-> 1]

\* the stargazers URL of page n
Url(repo, n) == [repo |-> repo, per_page |-> PER_PAGE, page |-> n]

(* get_stargazer_dates *)

IsErrorDictAnyDict(data) == data.t = "dict"

IsErrorDictWrongKey(data) == data.t = "dict" /\ "error" \in data.keys

\* isinstance(data, dict) and "__error__" in data
IsErrorDict(data) == data.t = "dict" /\ "__error__" \in data.keys

\* isinstance(data, list)
IsList(data) == data.t = "list"

IsShortList(data) == Len(data.items) < PER_PAGE

IsEmptyListNever(data) == FALSE

\* "not data" for a list
IsEmptyList(data) == data.items = <<>>

InRangeOneMore(p, mp) == p <= mp + 1

\* "for page in range(1, max_pages + 1)": is there a page-th iteration?
InRange(p, mp) == p <= mp

\* item.get("starred_at")
GetStarredAt(item) ==
    IF "starred_at" \in DOMAIN item THEN item.starred_at ELSE None

ProcessItemKeepsRaw(item) ==
    LET sa == GetStarredAt(item)
    IN  IF Truthy(sa)
        THEN IF FromIsoOk(sa)
             THEN <<IsoFormat(FromIsoDate(sa))>>
             ELSE <<sa.ymd>>
        ELSE <<>>

\* body of "for item in data": what one item appends to starred_dates,
\* the normalised date or nothing
ProcessItem(item) ==
    LET sa == GetStarredAt(item)
    IN  IF Truthy(sa)
        THEN IF FromIsoOk(sa)
             THEN <<IsoFormat(FromIsoDate(sa))>>
             ELSE <<>>
        ELSE <<>>

\* "for item in data" over items[lo..hi]: what the loop appends, in order
\* (the loop over the first half followed by the loop over the second half)
RECURSIVE ProcessItems(_, _, _)
ProcessItems(items, lo, hi) ==
    IF lo > hi THEN <<>>
    ELSE IF lo = hi THEN ProcessItem(items[lo])
    ELSE LET mid == (lo + hi) \div 2
         IN  ProcessItems(items, lo, mid) \o ProcessItems(items, mid + 1, hi)

TruncatedStrict(dates, mp) == Len(dates) > mp * PER_PAGE

\* len(starred_dates) >= max_pages * 100
Truncated(dates, mp) == Len(dates) >= mp * PER_PAGE

Outcome(dates, mp) ==
    [t |-> "dict", keys |-> {"dates", "truncated"},
     dates |-> dates, truncated |-> Truncated(dates, mp)]

NoResult == [t |-> "none", keys |-> {}]

\* one iteration of "for page in range(1, max_pages + 1)" once the fetch
\* has returned data
Iterate(data) ==
    /\ log' = Append(log, [url |-> Url(full_name, page), data |-> data])
    /\ IF IsErrorDict(data)
       THEN /\ sg' = data
            /\ pc' = "returned"
            /\ UNCHANGED <<page, starred_dates>>
       ELSE IF ~IsList(data) \/ IsEmptyList(data)
       THEN /\ pc' = "tail"
            /\ UNCHANGED <<page, starred_dates, sg>>
       ELSE /\ starred_dates' = starred_dates \o ProcessItems(data.items, 1, Len(data.items))
            /\ page' = page + 1
            /\ pc' = "loop"
            /\ UNCHANGED sg
    /\ UNCHANGED <<full_name, max_pages>>

\* one iteration of the loop, the fetch returning any body
FetchPage ==
    /\ pc = "loop"
    /\ InRange(page, max_pages)
    /\ \E data \in PageChoices : Iterate(data)
    /\ UNCHANGED chartVars
    /\ UNCHANGED cacheVars
    /\ UNCHANGED sessionVars

\* the code after the loop, reached by break or by exhausting the range
AfterLoop ==
    /\ \/ pc = "tail"
       \/ pc = "loop" /\ ~InRange(page, max_pages)
    /\ sg' = Outcome(starred_dates, max_pages)
    /\ pc' = "returned"
    /\ UNCHANGED <<full_name, max_pages, page, starred_dates, log>>

Return ==
    /\ AfterLoop
    /\ UNCHANGED chartVars
    /\ UNCHANGED cacheVars
    /\ UNCHANGED sessionVars

\* the page has not been loaded yet: no session state, nothing pressed
SessionIdle ==
    /\ session_state = [k \in {} |-> None]
    /\ click = "none"
    /\ chart_button = FALSE
    /\ api = <<>>
    /\ pressed = FALSE

\* the caches are empty and nothing has been called
CacheIdle ==
    /\ clock = 0
    /\ fetch_cache = [k \in {} |-> NoResult]
    /\ dates_cache = [k \in {} |-> NoResult]
    /\ fetches = <<>>
    /\ calls = <<>>

\* nothing selected, nothing rendered
ChartIdle ==
    /\ top_repos = <<>>
    /\ selected_repo = ""
    /\ today = 0
    /\ df = <<>>
    /\ ui = <<>>

\* get_stargazer_dates called with any page cap
InitCollect ==
    /\ pc = "loop"
    /\ full_name \in RepoNames
    /\ max_pages \in 0..MaxPages
    /\ page = 1
    /\ starred_dates = <<>>
    /\ log = <<>>
    /\ sg = NoResult
    /\ ChartIdle
    /\ CacheIdle
    /\ SessionIdle

NextCollect == FetchPage \/ Return

SpecCollect == InitCollect /\ [][NextCollect]_vars

(* The star-history block of the script *)

Repo(fn, n, stars) == [full_name |-> fn, name |-> n, stargazers_count |-> stars]

\* the lists of top repositories the script may hold; "" stands for a
\* missing or empty name field, None for a missing count
TopReposChoices ==
    {<<Repo("octo/alpha", "alpha", Num(5000)), Repo("", "beta", Num(100))>>,
     <<Repo("octo/alpha", "alpha", None), Repo("", "beta", Num(0))>>}

\* the UTC date at which the chart is drawn: 2024-02-29 or 2024-03-01
TodayChoices == {Ymd2Ord(<<2024, 2, 29>>), Ymd2Ord(<<2024, 3, 1>>)}

\* r.get("full_name") or r.get("name")
DisplayName(r) == IF r.full_name # "" THEN r.full_name ELSE r.name

\* repo_options
RepoOptions(repos) == [i \in 1..Len(repos) |-> DisplayName(repos[i])]

\* "Show star history" pressed with a repository selected: the script calls
\* get_stargazer_dates(selected_repo, max_pages) with its page budget (the
\* call site passes 10; here any budget from 1 to MaxPages)
ShowChart ==
    /\ pc = "idle"
    /\ \E repos \in TopReposChoices, k \in 1..2, mp \in 1..MaxPages :
         /\ k <= Len(repos)
         /\ RepoOptions(repos)[k] # ""
         /\ top_repos' = repos
         /\ selected_repo' = RepoOptions(repos)[k]
         /\ full_name' = RepoOptions(repos)[k]
         /\ max_pages' = mp
    /\ page' = 1
    /\ starred_dates' = <<>>
    /\ pc' = "loop"
    /\ UNCHANGED <<log, sg, today, df, ui>>
    /\ UNCHANGED cacheVars
    /\ UNCHANGED sessionVars

\* today - timedelta(days=5 * 365)
Cutoff(now) == now - 5 * 365

\* Counter(dates)
Counter(dates) ==
    [k \in {dates[i] : i \in 1..Len(dates)} |->
        Cardinality({i \in 1..Len(dates) : dates[i] = k})]

\* cnt.get(day_str, 0)
CntGet(cnt, day_str) == IF day_str \in DOMAIN cnt THEN cnt[day_str] ELSE 0

\* datetime.fromisoformat(dstr).date() for a date string; None on ValueError
ParseDay(dstr) == IF ValidYmd(dstr) THEN Ymd2Ord(dstr) ELSE -1

IsBeforeOrOn(d, cutoff) == d <= cutoff

\* does the key count toward total_before?
IsBefore(d, cutoff) == d < cutoff

\* total_before: the stars dated before the cutoff
RECURSIVE TotalBefore(_, _, _)
TotalBefore(cnt, keys, cutoff) ==
    IF keys = {} THEN 0
    ELSE LET dstr == CHOOSE k \in keys : TRUE
             d == ParseDay(dstr)
         IN  (IF d # -1 /\ IsBefore(d, cutoff) THEN cnt[dstr] ELSE 0)
             + TotalBefore(cnt, keys \ {dstr}, cutoff)

DaysOneShort(cutoff, now) == [i \in 1..(now - cutoff) |-> cutoff + (i - 1)]

\* days: the consecutive dates from cutoff to today
Days(cutoff, now) == [i \in 1..((now - cutoff) + 1) |-> cutoff + (i - 1)]

\* "for day in days" over days[lo..hi] entered with the running total:
\* the rows it appends (the loop over the first half, then the loop over
\* the second half entered with the total the first half ends with)
RECURSIVE Accumulate(_, _, _, _, _)
Accumulate(days, cnt, lo, hi, total) ==
    IF lo > hi THEN <<>>
    ELSE IF lo = hi
    THEN <<[date |-> days[lo], stars |-> total + CntGet(cnt, IsoFormat(days[lo]))]>>
    ELSE LET mid == (lo + hi) \div 2
             first == Accumulate(days, cnt, lo, mid, total)
         IN  first \o Accumulate(days, cnt, mid + 1, hi, first[Len(first)].stars)

\* cum_values / df for the dates collected and the current date
BuildSeries(dates, now) ==
    LET cutoff == Cutoff(now)
        cnt == Counter(dates)
        total_before == TotalBefore(cnt, DOMAIN cnt, cutoff)
        days == Days(cutoff, now)
    IN  Accumulate(days, cnt, 1, Len(days), total_before)

\* the outcome of the call is examined: an error is shown, an empty history
\* is reported, otherwise the series is built
ShowResult ==
    /\ pc = "returned"
    /\ IF IsErrorDict(sg)
       THEN /\ ui' = Append(ui, "error")
            /\ pc' = "done"
            /\ UNCHANGED <<today, df>>
       ELSE IF sg.dates = <<>>
       THEN /\ ui' = Append(ui, "info")
            /\ pc' = "done"
            /\ UNCHANGED <<today, df>>
       ELSE /\ \E now \in TodayChoices :
                 /\ today' = now
                 /\ df' = BuildSeries(sg.dates, now)
            /\ pc' = "built"
            /\ UNCHANGED ui
    /\ UNCHANGED <<top_repos, selected_repo>>
    /\ UNCHANGED collectorVars
    /\ UNCHANGED cacheVars
    /\ UNCHANGED sessionVars

\* next((x for x in top_repos if ... == selected_repo), None), as the
\* position of the match (0 when there is none)
FindRepo(repos, sel) ==
    IF \E i \in 1..Len(repos) : DisplayName(repos[i]) = sel
    THEN CHOOSE i \in 1..Len(repos) :
            /\ DisplayName(repos[i]) = sel
            /\ \A j \in 1..(i - 1) : DisplayName(repos[j]) # sel
    ELSE 0

\* repo_obj.get("stargazers_count") or None
ActualTotal(repo_obj) ==
    IF Truthy(repo_obj.stargazers_count) THEN repo_obj.stargazers_count ELSE None

\* sg.get("truncated"): is the reconciliation block entered?
EntersReconcile(outcome) == outcome.truncated

ComparedWithFirst(series) == series[1].stars

\* the value actual_total is compared with: int(df["stars"].iloc[-1])
ComparedValue(series) == series[Len(series)].stars

\* actual_total and actual_total > int(df["stars"].iloc[-1])
ExceedsLast(actual_total, series) ==
    Truthy(actual_total) /\ actual_total.num > ComparedValue(series)

SetFirst(series, v) == [series EXCEPT ![1].stars = v]

\* df.at[df.index[-1], "stars"] = actual_total
SetLast(series, v) == [series EXCEPT ![Len(series)].stars = v]

\* the series after the block guarded by sg.get("truncated")
Reconciled(series, outcome, repos, sel) ==
    LET at == FindRepo(repos, sel)
    IN  IF EntersReconcile(outcome) /\ at # 0
        THEN LET actual_total == ActualTotal(repos[at])
             IN  IF ExceedsLast(actual_total, series)
                 THEN SetLast(series, actual_total.num)
                 ELSE series
        ELSE series

WarnsOnlyIfPatched(outcome, series, repos, sel) ==
    outcome.truncated /\ Reconciled(series, outcome, repos, sel) # series

\* is st.warning reached?
Warns(outcome, series, repos, sel) == outcome.truncated

\* the truncation block and the drawing of the chart
Reconcile ==
    /\ pc = "built"
    /\ df' = Reconciled(df, sg, top_repos, selected_repo)
    /\ ui' = ui \o (IF Warns(sg, df, top_repos, selected_repo) THEN <<"warning">> ELSE <<>>)
                \o <<"line_chart">>
    /\ pc' = "done"
    /\ UNCHANGED <<top_repos, selected_repo, today>>
    /\ UNCHANGED collectorVars
    /\ UNCHANGED cacheVars
    /\ UNCHANGED sessionVars

Init ==
    /\ pc = "idle"
    /\ full_name = ""
    /\ max_pages = 0
    /\ page = 0
    /\ starred_dates = <<>>
    /\ log = <<>>
    /\ sg = NoResult
    /\ ChartIdle
    /\ CacheIdle
    /\ SessionIdle

Next == ShowChart \/ FetchPage \/ Return \/ ShowResult \/ Reconcile

Spec == Init /\ [][Next]_vars

(* The st.cache_data caches around fetch_json_with_headers and get_stargazer_dates *)

\* ttl=3600 of both decorators
TTL == 3600

FreshInclusive(entry, t) == t <= entry.stored + TTL

\* an entry is served until ttl seconds have passed since it was stored
Fresh(entry, t) == t < entry.stored + TTL

\* is the call answered from the cache?
CacheHit(cache, key, t) == key \in DOMAIN cache /\ Fresh(cache[key], t)

\* the function's return value is stored under the hash of its arguments
CachePut(cache, key, v, t) ==
    [k \in (DOMAIN cache) \cup {key} |->
        IF k = key THEN [value |-> v, stored |-> t] ELSE cache[k]]

\* what the network may answer to a stargazers request
NetChoices == {ErrTransport, EmptyPage, ShortPage}

\* the cached get_stargazer_dates returns: its value is stored
StoreOutcome ==
    /\ dates_cache' = CachePut(dates_cache, <<full_name, max_pages>>, sg', clock)
    /\ calls' = [calls EXCEPT ![Len(calls)].outcome = sg']

\* get_stargazer_dates(full_name, max_pages) is called: a fresh cached value
\* is returned at once, otherwise the body starts
Invoke ==
    /\ pc \in {"idle", "returned"}
    /\ Len(calls) < MaxCalls
    /\ \E mp \in 1..MaxPages :
         LET key == <<"octo/alpha", mp>>
             call == [full_name |-> "octo/alpha", max_pages |-> mp, at |-> clock,
                      first |-> Len(fetches) + 1, outcome |-> NoResult]
         IN  /\ full_name' = "octo/alpha"
             /\ max_pages' = mp
             /\ starred_dates' = <<>>
             /\ log' = <<>>
             /\ IF CacheHit(dates_cache, key, clock)
                THEN /\ sg' = dates_cache[key].value
                     /\ pc' = "returned"
                     /\ page' = 0
                     /\ calls' = Append(calls, [call EXCEPT !.outcome = dates_cache[key].value])
                ELSE /\ sg' = NoResult
                     /\ pc' = "loop"
                     /\ page' = 1
                     /\ calls' = Append(calls, call)
    /\ UNCHANGED <<clock, fetch_cache, dates_cache, fetches>>
    /\ UNCHANGED chartVars
    /\ UNCHANGED sessionVars

\* one iteration of the loop, the fetch going through its cache: a fresh
\* entry is returned without a request, otherwise the network is asked and
\* whatever fetch_json_with_headers returns is stored
FetchPageCached ==
    /\ pc = "loop"
    /\ InRange(page, max_pages)
    /\ LET url == Url(full_name, page)
       IN  IF CacheHit(fetch_cache, url, clock)
           THEN /\ Iterate(fetch_cache[url].value)
                /\ fetches' = Append(fetches, [url |-> url, at |-> clock,
                                               value |-> fetch_cache[url].value, net |-> FALSE])
                /\ UNCHANGED fetch_cache
           ELSE \E data \in NetChoices :
                /\ Iterate(data)
                /\ fetches' = Append(fetches, [url |-> url, at |-> clock,
                                               value |-> data, net |-> TRUE])
                /\ fetch_cache' = CachePut(fetch_cache, url, data, clock)
    /\ IF pc' = "returned" THEN StoreOutcome ELSE UNCHANGED <<dates_cache, calls>>
    /\ UNCHANGED clock
    /\ UNCHANGED chartVars
    /\ UNCHANGED sessionVars

\* the code after the loop, and the storing of the returned value
ReturnCached ==
    /\ AfterLoop
    /\ StoreOutcome
    /\ UNCHANGED <<clock, fetch_cache, fetches>>
    /\ UNCHANGED chartVars
    /\ UNCHANGED sessionVars

\* twenty minutes pass between two calls
Tick ==
    /\ pc \in {"idle", "returned"}
    /\ clock + 1200 <= MaxClock
    /\ clock' = clock + 1200
    /\ UNCHANGED <<pc, fetch_cache, dates_cache, fetches, calls>>
    /\ UNCHANGED collectorVars
    /\ UNCHANGED chartVars
    /\ UNCHANGED sessionVars

NextCache == Invoke \/ FetchPageCached \/ ReturnCached \/ Tick

SpecCache == Init /\ [][NextCache]_vars

(* The script as Streamlit runs it: one run per page load, widget change or button press *)

\* the keyword typed into the text box, as its words after strip()
KeywordChoices == {<<>>, <<"web", "ui">>}

\* two of the languages of the selectbox
LanguageChoices == {"All", "Flutter"}

\* the ends of the top-N slider
TopNChoices == {5, 30}

\* lang_map.get(language, language)
LangMap(language) == IF language = "Flutter" THEN "Dart" ELSE language

\* the url of search_repos: the query parts joined with "+"
SearchUrl(keyword, language) ==
    [path |-> "/search/repositories",
     q |-> keyword,
     language |-> IF language # "" /\ language # "All" THEN LangMap(language) ELSE "",
     stars |-> ">=1000",
     per_page |-> PER_PAGE]

\* a search answer with its "items"
ItemsBody(items) == [t |-> "dict", keys |-> {"total_count", "items"}, items |-> items]

\* a JSON object that has neither "items" nor "message"
OtherBody == [t |-> "dict", keys |-> {"total_count"}]

\* what fetch_json may return for a search url: an error, an API message,
\* no hit, hits in any order, and bodies of an unexpected shape
SearchChoices ==
    {ErrHTTP, DictBody, NullBody, OtherBody, ItemsBody(<<>>),
     ItemsBody(<<Repo("", "beta", Num(100)), Repo("octo/alpha", "alpha", Num(5000))>>),
     ItemsBody(<<Repo("octo/alpha", "alpha", None), Repo("", "beta", Num(0))>>)}

\* the return value of search_repos for the body fetch_json gave
SearchRepos(data) ==
    IF data.t = "dict" /\ "items" \in data.keys THEN ListBody(data.items) ELSE data

\* a text held in st.session_state['search_error']
ErrorText(text) == [t |-> "str", text |-> text]

\* st.session_state.get(key)
SessionGet(ss, key) == IF key \in DOMAIN ss THEN ss[key] ELSE None

\* not v, for a value of the session state
Falsy(v) ==
    \/ v.t = "null"
    \/ v.t = "list" /\ v.items = <<>>
    \/ v.t = "dict" /\ v.keys = {}

\* the session state after the first lines of the script
SessionInit(ss) ==
    IF "search_results" \notin DOMAIN ss
    THEN [search_results |-> None, search_error |-> None]
    ELSE ss

FailedKeepsResults(old) == old

\* st.session_state['search_results'] after a search that failed
FailedResults(old) == ListBody(<<>>)

\* the session state after "if do_search:" stored the outcome
SearchStored(ss, results) ==
    IF results.t = "dict" /\ "__error__" \in results.keys
    THEN [search_results |-> FailedResults(ss.search_results),
          search_error |-> ErrorText(results.text)]
    ELSE IF results.t = "dict" /\ "message" \in results.keys /\ results.text # ""
    THEN [search_results |-> FailedResults(ss.search_results),
          search_error |-> ErrorText(results.text)]
    ELSE [search_results |-> results, search_error |-> None]

\* r.get("stargazers_count", 0)
StarsKey(r) == IF r.stargazers_count.t = "num" THEN r.stargazers_count.num ELSE 0

\* sorted(repos_list, key=stargazers_count, reverse=True): stable
SortedByStars(repos) ==
    LET Rank(i) ==
            1 + Cardinality({j \in 1..Len(repos) :
                    \/ StarsKey(repos[j]) > StarsKey(repos[i])
                    \/ StarsKey(repos[j]) = StarsKey(repos[i]) /\ j < i})
    IN [p \in 1..Len(repos) |-> repos[CHOOSE i \in 1..Len(repos) : Rank(i) = p]]

\* repos_sorted[:top_n]
TopN(repos, top_n) ==
    SubSeq(repos, 1, IF top_n < Len(repos) THEN top_n ELSE Len(repos))

StartsChartWithoutButton(selected, show_chart) == selected # ""

\* if selected_repo and show_chart
StartsChart(selected, show_chart) == selected # "" /\ show_chart

\* the run ends without a call of get_stargazer_dates
RunEnds(out, top, selected, button) ==
    /\ ui' = out
    /\ top_repos' = top
    /\ selected_repo' = selected
    /\ chart_button' = button
    /\ full_name' = ""
    /\ max_pages' = 0
    /\ page' = 0
    /\ pc' = "done"

\* the run reaches get_stargazer_dates(selected_repo, max_pages) (the call
\* site passes 10; here any budget from 1 to MaxPages)
RunCharts(out, top, selected) ==
    /\ ui' = out
    /\ top_repos' = top
    /\ selected_repo' = selected
    /\ chart_button' = TRUE
    /\ full_name' = selected
    /\ \E mp \in 1..MaxPages : max_pages' = mp
    /\ page' = 1
    /\ pc' = "loop"

\* "if do_search:": the request of search_repos and what the script stores
DoSearch(ss) ==
    \E keyword \in KeywordChoices, language \in LanguageChoices, data \in SearchChoices :
        /\ api' = <<[url |-> SearchUrl(keyword, language), data |-> data]>>
        /\ session_state' = SearchStored(ss, SearchRepos(data))

\* one run of the script from its first line to the star-history block:
\* the widgets, the session state, the search when its button triggered the
\* run, the list of repositories and the decision to draw the chart
Rerun ==
    /\ pc \in {"load", "done"}
    /\ \E c \in {"none", "search", "chart"} :
         /\ pc = "load" => c = "none"
         /\ c = "chart" => chart_button
         /\ click' = c
         /\ pressed' = (pressed \/ c = "search")
         /\ IF c = "search"
            THEN DoSearch(SessionInit(session_state))
            ELSE api' = <<>> /\ session_state' = SessionInit(session_state)
         /\ LET results == SessionGet(session_state', "search_results")
                out == IF c = "search" /\ session_state'.search_error # None
                       THEN <<"error">> ELSE <<>>
            IN IF Falsy(results)
               THEN RunEnds(Append(out, "info"), <<>>, "", FALSE)
               ELSE IF results.t # "list"
               THEN RunEnds(Append(out, "exception"), <<>>, "", FALSE)
               ELSE \E top_n \in TopNChoices :
                      LET top == TopN(SortedByStars(results.items), top_n)
                          options == RepoOptions(top)
                      IN IF options = <<>>
                         THEN RunEnds(Append(out, "list"), top, "", FALSE)
                         ELSE \E k \in 1..Len(options) :
                                IF StartsChart(options[k], c = "chart")
                                THEN RunCharts(Append(out, "list"), top, options[k])
                                ELSE RunEnds(Append(out, "list"), top, options[k], TRUE)
    /\ starred_dates' = <<>>
    /\ log' = <<>>
    /\ sg' = NoResult
    /\ today' = 0
    /\ df' = <<>>
    /\ UNCHANGED cacheVars

\* the browser opens the page: nothing has run yet
InitUI ==
    /\ pc = "load"
    /\ full_name = ""
    /\ max_pages = 0
    /\ page = 0
    /\ starred_dates = <<>>
    /\ log = <<>>
    /\ sg = NoResult
    /\ ChartIdle
    /\ CacheIdle
    /\ SessionIdle

NextUI == Rerun \/ FetchPage \/ Return \/ ShowResult \/ Reconcile

SpecUI == InitUI /\ [][NextUI]_vars

(* Properties of get_stargazer_dates *)

\* a record that carries a timestamp the collector can read
ValidRecord(item) ==
    /\ "starred_at" \in DOMAIN item
    /\ item.starred_at.t = "str"
    /\ ValidYmd(item.starred_at.ymd)
    /\ item.starred_at.tail \in {"", "T08:30:00Z", "T08:30:00+00:00", "T23:30:00-05:00"}

\* a page of exactly 100 records, all of them valid
FullValidPage(data) ==
    /\ data.t = "list"
    /\ Len(data.items) = 100
    /\ \A i \in 1..100 : ValidRecord(data.items[i])

\* the page numbers requested so far, in order
Requested == [i \in 1..Len(log) |-> log[i].url.page]

\* get_stargazer_dates has returned
Returned == pc \in {"returned", "built", "done"}

Succeeded == Returned /\ "dates" \in sg.keys

C2_EmptyPageStops ==
    \A j \in 1..Len(log) :
        ( /\ log[j].data = EmptyPage
          /\ \A i \in 1..(j - 1) : FullValidPage(log[i].data)
          /\ j - 1 < max_pages )
        => /\ Len(log) = j
           /\ Requested = [i \in 1..j |-> i]
           /\ pc = "tail" \/ Returned
           /\ Returned =>
                /\ "dates" \in sg.keys
                /\ Len(sg.dates) = (j - 1) * 100
                /\ sg.truncated = FALSE

C2_Witness ==
    /\ Succeeded
    /\ Len(log) = 2
    /\ FullValidPage(log[1].data)
    /\ log[2].data = EmptyPage
    /\ Len(sg.dates) = 100

\* C3: when every page is full, exactly max_pages pages are requested (never
\* page max_pages + 1) and the outcome holds max_pages * 100 records with
\* truncated = true.
C3_CapStops ==
    (\A i \in 1..Len(log) : FullValidPage(log[i].data))
    => /\ Len(log) <= max_pages
       /\ Requested = [i \in 1..Len(log) |-> i]
       /\ Returned =>
            /\ Len(log) = max_pages
            /\ "dates" \in sg.keys
            /\ Len(sg.dates) = max_pages * 100
            /\ sg.truncated = TRUE

C3_Witness ==
    /\ Succeeded
    /\ max_pages = 2
    /\ Len(log) = 2
    /\ \A i \in 1..2 : FullValidPage(log[i].data)

\* C4: when the fetch of page n returns an error value, the outcome is that
\* very value, no later page is requested, and the dates of pages 1..n-1 are
\* not part of what is returned.
C4_ErrorPropagates ==
    \A n \in 1..Len(log) :
        "__error__" \in (IF log[n].data.t = "dict" THEN log[n].data.keys ELSE {})
        => /\ Len(log) = n
           /\ Returned
           /\ sg = log[n].data
           /\ "dates" \notin sg.keys

C4_Witness ==
    /\ Returned
    /\ Len(log) = 2
    /\ FullValidPage(log[1].data)
    /\ log[2].data = ErrTransport
    /\ sg = ErrTransport
    /\ Len(starred_dates) = 100

\* the dates of the valid records of one page, in page order, read off the
\* date prefix of each timestamp
ValidDates(data) ==
    IF data.t = "list"
    THEN LET good == SelectSeq(data.items, ValidRecord)
         IN  [i \in 1..Len(good) |-> good[i].starred_at.ymd]
    ELSE <<>>

RECURSIVE ValidDatesUpTo(_)
ValidDatesUpTo(n) ==
    IF n = 0 THEN <<>> ELSE ValidDatesUpTo(n - 1) \o ValidDates(log[n].data)

WindowStart == today - 5 * 365

WindowEnd == today

\* C6: the series has (windowEnd - windowStart).days + 1 entries, one for
\* each consecutive calendar day from windowStart to windowEnd in increasing
\* order, and its values never decrease.
C6_OneRowPerDay ==
    pc \in {"built", "done"} /\ df # <<>> =>
        /\ Len(df) = (WindowEnd - WindowStart) + 1
        /\ Len(df) = 1826
        /\ \A i \in 1..Len(df) : df[i].date = WindowStart + (i - 1)
        /\ df[Len(df)].date = WindowEnd
        /\ \A i \in 1..(Len(df) - 1) : df[i].stars <= df[i + 1].stars

C6_Witness ==
    /\ pc = "built"
    /\ Len(df) = 1826
    /\ df[1].stars < df[1826].stars

\* the collected events grouped by day: pairs (day, number of events)
EventsPerDay ==
    LET dates == sg.dates
    IN  {<<Ymd2Ord(key), Cardinality({k \in 1..Len(dates) : dates[k] = key})>> :
            key \in {dates[k] : k \in 1..Len(dates)}}

RECURSIVE SumCounts(_)
SumCounts(pairs) ==
    IF pairs = {} THEN 0
    ELSE LET p == CHOOSE q \in pairs : TRUE
         IN  p[2] + SumCounts(pairs \ {p})

\* C7: before reconciliation the value of every day d of the window is the
\* number of collected events dated d or earlier, those before windowStart
\* included; when every event predates windowStart all values equal the
\* number of events.
C7_CumulativeCount ==
    pc = "built" =>
        LET perDay == EventsPerDay
        IN  /\ \A i \in 1..Len(df) :
                 df[i].stars = SumCounts({p \in perDay : p[1] <= df[i].date})
            /\ (\A p \in perDay : p[1] < WindowStart) =>
                 \A i \in 1..Len(df) : df[i].stars = Len(sg.dates)

\* events before the window, on its first day, inside it and after its end
C7_Witness ==
    /\ pc = "built"
    /\ today = Ymd2Ord(<<2024, 2, 29>>)
    /\ \E k \in 1..Len(sg.dates) : Ymd2Ord(sg.dates[k]) < WindowStart
    /\ \E k \in 1..Len(sg.dates) : Ymd2Ord(sg.dates[k]) = WindowStart
    /\ \E k \in 1..Len(sg.dates) : Ymd2Ord(sg.dates[k]) > WindowEnd
    /\ df[1].stars = 140
    /\ df[Len(df)].stars = 190

\* the repository's own star count, when the selected repository has a
\* positive one
SelectedRepos ==
    {top_repos[i] : i \in {j \in 1..Len(top_repos) : DisplayName(top_repos[j]) = selected_repo}}

HasAuthoritativeTotal ==
    \E r \in SelectedRepos : r.stargazers_count.t = "num" /\ r.stargazers_count.num > 0

AuthoritativeTotal == (CHOOSE r \in SelectedRepos : TRUE).stargazers_count.num

\* C8: when the collection was truncated and a positive authoritative total
\* is available, the last value drawn is the larger of the total and the
\* computed last value, hence never below the total.
C8_LastNotBelowTotal ==
    [][ (pc = "built" /\ sg.truncated /\ HasAuthoritativeTotal) =>
            LET computed == df[Len(df)].stars
                shown == df'[Len(df')].stars
            IN  /\ pc' = "done"
                /\ shown = (IF AuthoritativeTotal > computed
                            THEN AuthoritativeTotal ELSE computed)
                /\ shown >= AuthoritativeTotal ]_vars

C8_Witness ==
    /\ pc = "done"
    /\ df # <<>>
    /\ sg.truncated
    /\ HasAuthoritativeTotal
    /\ AuthoritativeTotal = 100
    /\ Len(sg.dates) = 100
    /\ today = Ymd2Ord(<<2024, 2, 29>>)
    /\ df[Len(df) - 1].stars = 90
    /\ df[Len(df)].stars = 100

\* C9: reconciliation leaves every entry but the last as it was, and leaves
\* the whole series as it was when truncated is false, whatever the total.
C9_OnlyLastMayChange ==
    [][ pc = "built" =>
            /\ Len(df') = Len(df)
            /\ \A i \in 1..(Len(df) - 1) : df'[i] = df[i]
            /\ df'[Len(df)].date = df[Len(df)].date
            /\ (sg.truncated = FALSE => df' = df) ]_vars

\* not truncated, although the repository reports more stars than counted
C9_Witness ==
    /\ pc = "done"
    /\ df # <<>>
    /\ sg.truncated = FALSE
    /\ HasAuthoritativeTotal
    /\ AuthoritativeTotal > df[Len(df)].stars

\* C10: the warning is rendered in every run whose outcome is truncated,
\* patched or not, total found or not, and in no other run.
C10_WarningIffTruncated ==
    /\ pc = "done" =>
         (("warning" \in {ui[i] : i \in 1..Len(ui)})
            <=> ("dates" \in sg.keys /\ sg.truncated))
    /\ pc # "done" => "warning" \notin {ui[i] : i \in 1..Len(ui)}

\* truncated, no total to reconcile with, warned all the same
C10_Witness ==
    /\ pc = "done"
    /\ "dates" \in sg.keys
    /\ sg.truncated
    /\ ~HasAuthoritativeTotal
    /\ ui = <<"warning", "line_chart">>
    /\ df[Len(df)].stars = Len(sg.dates)

(* Further properties of get_stargazer_dates *)

\* C11 as stated: after a page with fewer than 100 records no further page
\* is requested.
C11_ShortPageStops ==
    \A n \in 1..Len(log) :
        (log[n].data.t = "list" /\ Len(log[n].data.items) < 100) => Len(log) = n

\* C11 as amended: an empty page ends the requests; a short page that is not
\* empty does not: the loop is not left by break, and page n+1 is requested
\* whenever n < max_pages.
C11_OnlyEmptyPageStops ==
    \A n \in 1..Len(log) :
        /\ (log[n].data.t = "list" /\ Len(log[n].data.items) = 0) =>
              /\ Len(log) = n
              /\ pc # "loop"
        /\ (log[n].data.t = "list" /\ Len(log[n].data.items) \in 1..99) =>
              /\ Len(log) = n => (pc # "tail" /\ page = n + 1)
              /\ (Returned /\ n < max_pages) =>
                    /\ Len(log) >= n + 1
                    /\ log[n + 1].url.page = n + 1

C11_Witness ==
    /\ Returned
    /\ Len(log) = 2
    /\ log[1].data = ShortPage
    /\ log[2].data = EmptyPage
    /\ Len(sg.dates) = 3

\* C12: a body that is neither an error value nor a list ends the requests,
\* and the outcome is not an error: it holds exactly the dates of the
\* earlier pages, with truncated = false.
C12_UnexpectedShapeStops ==
    \A n \in 1..Len(log) :
        (log[n].data.t # "list" /\ "__error__" \notin (IF log[n].data.t = "dict"
                                                        THEN log[n].data.keys ELSE {}))
        => /\ Len(log) = n
           /\ pc = "tail" \/ Returned
           /\ Returned =>
                /\ "dates" \in sg.keys
                /\ "__error__" \notin sg.keys
                /\ sg.dates = ValidDatesUpTo(n - 1)
                /\ sg.truncated = FALSE

C12_Witness ==
    /\ Returned
    /\ Len(log) = 2
    /\ log[1].data = FullPageMixed
    /\ log[2].data = DictBody
    /\ Len(sg.dates) = 100
    /\ sg.truncated = FALSE

\* C15: within one call the pages are requested in the order 1, 2, ..., each
\* once, for one repository, and every page before the last requested one
\* returned a list that is not empty. (A fetch is a blocking call: the body
\* of page n is in the log before page n+1 is asked for.)
C15_SequentialPages ==
    /\ \A n \in 1..Len(log) :
         /\ log[n].url.page = n
         /\ log[n].url.repo = full_name
    /\ \A n \in 1..(Len(log) - 1) :
         /\ log[n].data.t = "list"
         /\ log[n].data.items # <<>>
    /\ Len(log) <= max_pages

C15_Witness ==
    /\ Len(log) = 2
    /\ pc = "loop"
    /\ log[1].data = FullPageMixed
    /\ log[2].data = FullPageOneBad
    /\ log[1].url.page = 1
    /\ log[2].url.page = 2

\* C16: when all max_pages pages were consumed and the last one was full
\* (100 records), the outcome is truncated.
C16_FullLastPageTruncated ==
    ( /\ Succeeded
      /\ max_pages >= 1
      /\ Len(log) = max_pages
      /\ \A n \in 1..Len(log) : log[n].data.t = "list" /\ log[n].data.items # <<>>
      /\ Len(log[max_pages].data.items) = 100 )
    => sg.truncated = TRUE

(* Properties of the caches *)

\* the calls of fetch_json_with_headers made by the i-th call of
\* get_stargazer_dates
FetchesOf(i) ==
    {k \in 1..Len(fetches) :
        /\ k >= calls[i].first
        /\ i < Len(calls) => k < calls[i + 1].first}

\* the i-th call ran and ended because its last fetch returned an error
FailedOnFetch(i) ==
    /\ FetchesOf(i) # {}
    /\ "__error__" \in calls[i].outcome.keys
    /\ \E k \in FetchesOf(i) :
         /\ \A m \in FetchesOf(i) : m <= k
         /\ fetches[k].value = calls[i].outcome

FailedUrl(i) == (CHOOSE k \in FetchesOf(i) : \A m \in FetchesOf(i) : m <= k).url

\* C13: after a call that failed on a page fetch, a call with the same
\* repository and page cap asks the network for the failed page again
\* instead of returning the earlier error.
C13_RetryRefetches ==
    \A i \in 1..Len(calls) : \A j \in 1..Len(calls) :
        ( /\ i < j
          /\ FailedOnFetch(i)
          /\ calls[j].full_name = calls[i].full_name
          /\ calls[j].max_pages = calls[i].max_pages
          /\ calls[j].outcome # NoResult )
        => \E k \in FetchesOf(j) :
              /\ fetches[k].net
              /\ fetches[k].url = FailedUrl(i)

\* the latest network request for the URL of the k-th fetch made before it
\* (0 when there is none): the request whose answer the cache holds
StoredBy(k) ==
    LET earlier == {m \in 1..(k - 1) : fetches[m].net /\ fetches[m].url = fetches[k].url}
    IN  IF earlier = {} THEN 0
        ELSE CHOOSE m \in earlier : \A o \in earlier : o <= m

\* C14 as stated: two fetches of one URL less than 3600 s apart cause at
\* most one request and return the same value; a fetch made 3600 s or more
\* after the entry was stored causes a request.
C14_WithinTtlApart ==
    /\ \A i \in 1..Len(fetches) : \A j \in 1..Len(fetches) :
         ( /\ i < j
           /\ fetches[i].url = fetches[j].url
           /\ fetches[j].at - fetches[i].at < 3600 )
         => /\ ~(fetches[i].net /\ fetches[j].net)
            /\ fetches[i].value = fetches[j].value
    /\ \A k \in 1..Len(fetches) :
         (StoredBy(k) # 0 /\ fetches[k].at - fetches[StoredBy(k)].at >= 3600)
         => fetches[k].net

\* C14 as amended: a fetch made less than 3600 s after the entry for its URL
\* was stored causes no request and returns the stored value; any other
\* fetch (entry 3600 s old or older, or no entry) causes a request.
C14_TtlFromStore ==
    \A k \in 1..Len(fetches) :
        LET m == StoredBy(k)
        IN  IF m # 0 /\ fetches[k].at - fetches[m].at < 3600
            THEN /\ ~fetches[k].net
                 /\ fetches[k].value = fetches[m].value
            ELSE fetches[k].net

\* one URL fetched at 0 (request), at 2400 (from the cache) and at 3600
\* (request again, another answer)
C14_Witness ==
    /\ Len(fetches) >= 3
    /\ \E a \in 1..Len(fetches) : \E b \in 1..Len(fetches) : \E c \in 1..Len(fetches) :
         /\ a < b /\ b < c
         /\ fetches[a].url = fetches[b].url /\ fetches[b].url = fetches[c].url
         /\ fetches[a].net /\ fetches[a].at = 0
         /\ ~fetches[b].net /\ fetches[b].at = 2400 /\ fetches[b].value = fetches[a].value
         /\ fetches[c].net /\ fetches[c].at = 3600 /\ fetches[c].value # fetches[a].value


(* Properties of the script's runs *)

\* st.session_state['search_results'], None before the first run
SearchResults == SessionGet(session_state, "search_results")

\* st.session_state['search_error'], None before the first run
SearchError == SessionGet(session_state, "search_error")

\* the stored search result offers the repository under this name
Offered(name) ==
    /\ SearchResults.t = "list"
    /\ \E i \in 1..Len(SearchResults.items) : DisplayName(SearchResults.items[i]) = name

\* C17: no API request on initial load or without a button. While the search
\* button has never been pressed no request of any kind has been issued; a
\* search request is issued only in a run triggered by the search button; a
\* stargazer page is requested only in a run triggered by the show-chart
\* button, for the selected repository, which is one of a non-empty stored
\* search result.
C17_NoRequestWithoutButton ==
    /\ ~pressed => (api = <<>> /\ log = <<>> /\ Falsy(SearchResults))
    /\ api # <<>> => click = "search"
    /\ log # <<>> =>
         /\ click = "chart"
         /\ selected_repo # ""
         /\ ~Falsy(SearchResults)
         /\ Offered(selected_repo)
         /\ \A j \in 1..Len(log) : log[j].url.repo = selected_repo

\* a stargazer page was requested in a run that the show-chart button
\* triggered, after an earlier search stored its hits
C17_Witness ==
    /\ pressed
    /\ click = "chart"
    /\ Len(log) >= 1
    /\ log[1].url.repo = "beta"
    /\ Len(SearchResults.items) = 2

\* the search failed: fetch_json gave an error or an API message
SearchFailed(data) ==
    data.t = "dict" /\ ("__error__" \in data.keys \/ "message" \in data.keys)

\* C18: the search result is held across runs. Only a run triggered by the
\* search button changes search_results or search_error; search_error is
\* non-null only while search_results is the empty list; a failed search
\* stores the empty list with its error, any other search stores what
\* search_repos returned and clears the error.
C18_SessionKept ==
    /\ [][\/ pc \in {"load", "done"} /\ click' = "search"
          \/ /\ SessionGet(session_state', "search_results") = SearchResults
             /\ SessionGet(session_state', "search_error") = SearchError]_vars
    /\ [](SearchError # None => SearchResults = ListBody(<<>>))
    /\ [](api # <<>> =>
            IF SearchFailed(api[1].data)
            THEN SearchResults = ListBody(<<>>) /\ SearchError = ErrorText(api[1].data.text)
            ELSE SearchResults = SearchRepos(api[1].data) /\ SearchError = None)

\* a run without the search button after a failed search: the empty list and
\* the error are still stored
C18_Witness ==
    /\ pc = "done"
    /\ pressed
    /\ click = "none"
    /\ api = <<>>
    /\ SearchError = ErrorText("Not Found")
    /\ SearchResults = ListBody(<<>>)

====
